---- MODULE Spec2Model ----
(***************************************************************************)
(* Model of scripts/admin-user-audit.py: the environment loader, the       *)
(* paginated identity client, the database query runner and the            *)
(* reconciliation report of main().                                        *)
(*                                                                         *)
(* Strings are sequences of tokens.  A token is one of the characters the  *)
(* code inspects (space, '=', '#', the two quote characters) or a word: a   *)
(* run of characters none of the string operations used here looks into.   *)
(* User IDs are sequences of single characters, ordered by code point as   *)
(* Python orders str.                                                      *)
(***************************************************************************)
EXTENDS Integers, Sequences, FiniteSets, TLC

VARIABLES
    pc,          \* position of the run in main()
    status,      \* process exit status: -1 while running, then 0 or 1
    envFile,     \* .env.production.local: whether it exists, and its lines
    lineNo,      \* lines of envFile that load_env has processed
    env,         \* os.environ: key -> value
    env0,        \* os.environ as it was when the process started
    apiPages,    \* the identity API: response to the request for page n
    page,        \* fetch_clerk_users: page
    users,       \* fetch_clerk_users: users (then main: clerk_users)
    requests,    \* identity API requests issued so far
    proxy,       \* the proxy command: its return code and its stdout
    proxyCalls,  \* proxy command invocations so far
    db_users,    \* main: db_users
    stdout,      \* lines printed to standard output
    stderr       \* lines printed to the diagnostic stream

vars == <<pc, status, envFile, lineNo, env, env0, apiPages, page, users,
          requests, proxy, proxyCalls, db_users, stdout, stderr>>

(***************************************************************************)
(* Bounds of the model.                                                    *)
(***************************************************************************)
MaxEnvLines == 2
MaxPages == 3
MaxUsers == 2
MaxDbRows == 2

(***************************************************************************)
(* Python str operations used by load_env.                                 *)
(***************************************************************************)
Whitespace == {" "}
QuoteChars == {"'", "\""}

RECURSIVE LStrip(_, _)
LStrip(s, chars) ==
    IF s # <<>> /\ Head(s) \in chars THEN LStrip(Tail(s), chars) ELSE s

RECURSIVE RStrip(_, _)
RStrip(s, chars) ==
    IF s # <<>> /\ s[Len(s)] \in chars
    THEN RStrip(SubSeq(s, 1, Len(s) - 1), chars)
    ELSE s

\* str.strip(chars): drop every leading and trailing character that is in chars
Strip(s, chars) == RStrip(LStrip(s, chars), chars)

\* str.startswith for a one-character prefix
StartsWith(s, c) == s # <<>> /\ Head(s) = c

\* index of the first occurrence of c in s, 0 when there is none
RECURSIVE FindFrom(_, _, _)
FindFrom(s, c, i) ==
    IF i > Len(s) THEN 0
    ELSE IF s[i] = c THEN i
    ELSE FindFrom(s, c, i + 1)

\* str.partition(sep) for a one-character separator: <<before, sep, after>>
Partition(s, sep) ==
    LET i == FindFrom(s, sep, 1)
    IN  IF i = 0 THEN <<s, <<>>, <<>>>>
        ELSE <<SubSeq(s, 1, i - 1), <<sep>>, SubSeq(s, i + 1, Len(s))>>

(***************************************************************************)
(* load_env                                                                *)
(***************************************************************************)
NoFile == [exists |-> FALSE, lines |-> <<>>]
EnvFileOf(lines) == [exists |-> TRUE, lines |-> lines]

\* line 37-38: the line is skipped
SkippedLine(raw) ==
    LET line == Strip(raw, Whitespace)
    IN  line = <<>> \/ StartsWith(line, "#")

\* line 40, 43: the key the line sets
LineKey(raw) == Strip(Partition(Strip(raw, Whitespace), "=")[1], Whitespace)

\* line 40-42: the value the line sets
LineValue(raw) ==
    Strip(Strip(Partition(Strip(raw, Whitespace), "=")[3], Whitespace), QuoteChars)

\* os.environ.setdefault(key, value): a variable already set keeps its value
SetEnvKeepExisting(e, key, value) ==
    [k \in DOMAIN e \cup {key} |-> IF k \in DOMAIN e THEN e[k] ELSE value]

\* os.environ[key] = value
SetEnv(e, key, value) ==
    [k \in DOMAIN e \cup {key} |-> IF k = key THEN value ELSE e[k]]

\* os.environ.get(key, "")
GetEnv(e, key) == IF key \in DOMAIN e THEN e[key] ELSE <<>>

\* line 33-35: the file does not exist
LoadEnvMissing ==
    /\ pc = "load_env"
    /\ ~envFile.exists
    /\ stderr' = Append(stderr, "env file not found")
    /\ status' = 1
    /\ pc' = "exit"
    /\ UNCHANGED <<envFile, lineNo, env, env0, apiPages, page, users, requests,
                   proxy, proxyCalls, db_users, stdout>>

\* line 36-43: one iteration of the loop over the lines.  Setting a variable
\* with an empty name makes os.environ raise OSError, which nothing catches.
LoadEnvLine ==
    /\ pc = "load_env"
    /\ envFile.exists
    /\ lineNo < Len(envFile.lines)
    /\ lineNo' = lineNo + 1
    /\ LET raw == envFile.lines[lineNo + 1]
       IN  IF SkippedLine(raw)
           THEN UNCHANGED <<env, pc, status, stderr>>
           ELSE IF LineKey(raw) = <<>>
           THEN /\ stderr' = Append(stderr, "traceback")
                /\ status' = 1
                /\ pc' = "exit"
                /\ UNCHANGED env
           ELSE /\ env' = SetEnv(env, LineKey(raw), LineValue(raw))
                /\ UNCHANGED <<pc, status, stderr>>
    /\ UNCHANGED <<envFile, env0, apiPages, page, users, requests, proxy,
                   proxyCalls, db_users, stdout>>

\* load_env returns; main line 151
LoadEnvReturn ==
    /\ pc = "load_env"
    /\ envFile.exists
    /\ lineNo = Len(envFile.lines)
    /\ stdout' = Append(stdout, [kind |-> "progress", text |-> "Fetching Clerk users..."])
    /\ pc' = "fetch_start"
    /\ UNCHANGED <<status, envFile, lineNo, env, env0, apiPages, page, users,
                   requests, proxy, proxyCalls, db_users, stderr>>

(***************************************************************************)
(* fetch_clerk_users                                                       *)
(***************************************************************************)
page_size == 100

ClerkKey == <<"CLERK_SECRET_KEY">>

\* line 82: the batch of a decoded response: a bare array, or the "data" field
\* of an object, [] when the object has none
Batch(resp) ==
    IF resp.shape = "list" THEN resp.items
    ELSE IF resp.shape = "data" THEN resp.items
    ELSE <<>>

\* line 87-96: the record kept for one user of the batch; created_at is shown
\* to the second, so the milliseconds are dropped
NormalizeUser(u) ==
    [id |-> u.id,
     email |-> IF u.email_addresses # <<>> THEN Head(u.email_addresses) ELSE "",
     created_at |-> u.created_at \div 1000]

NormalizeBatch(batch) == [i \in 1..Len(batch) |-> NormalizeUser(batch[i])]

\* the loop also stops at a page of exactly page_size users
MorePagesInclusive(batch) == ~(Len(batch) <= page_size)

\* line 98: the loop goes on to the next page
MorePages(batch) == ~(Len(batch) < page_size)

\* line 62-69: the secret key is read; without one the run ends
FetchStart ==
    /\ pc = "fetch_start"
    /\ IF GetEnv(env, ClerkKey) = <<>>
       THEN /\ stderr' = Append(stderr, "CLERK_SECRET_KEY not set")
            /\ status' = 1
            /\ pc' = "exit"
            /\ UNCHANGED <<page, users>>
       ELSE /\ users' = <<>>
            /\ page' = 1
            /\ pc' = "fetch"
            /\ UNCHANGED <<status, stderr>>
    /\ UNCHANGED <<envFile, lineNo, env, env0, apiPages, requests, proxy,
                   proxyCalls, db_users, stdout>>

\* line 71-100: one iteration of the loop: one request, its batch, and either
\* the end of the loop (then main line 153-155) or the next page.  A failing
\* request raises, and nothing catches it.
FetchPage ==
    /\ pc = "fetch"
    /\ page <= Len(apiPages)
    /\ requests' = requests + 1
    /\ LET resp == apiPages[page]
           batch == Batch(resp)
       IN  IF ~resp.ok
           THEN /\ stderr' = Append(stderr, "traceback")
                /\ status' = 1
                /\ pc' = "exit"
                /\ UNCHANGED <<page, users, stdout>>
           ELSE IF batch = <<>>
           THEN /\ pc' = "query"
                /\ stdout' = Append(stdout, [kind |-> "progress", text |-> "Querying D1 database..."])
                /\ UNCHANGED <<page, users, status, stderr>>
           ELSE /\ users' = users \o NormalizeBatch(batch)
                /\ IF MorePages(batch)
                   THEN /\ page' = page + 1
                        /\ UNCHANGED <<pc, stdout>>
                   ELSE /\ pc' = "query"
                        /\ stdout' = Append(stdout, [kind |-> "progress", text |-> "Querying D1 database..."])
                        /\ UNCHANGED page
                /\ UNCHANGED <<status, stderr>>
    /\ UNCHANGED <<envFile, lineNo, env, env0, apiPages, proxy, proxyCalls,
                   db_users>>

(***************************************************************************)
(* query_d1, fetch_db_users                                                *)
(*                                                                         *)
(* A JSON value is [t |-> its type, v |-> its content]: the elements of a  *)
(* "list", the fields of an "obj".  The proxy's stdout is a JSON value, or *)
(* text json.loads rejects (t = "invalid").                                *)
(***************************************************************************)
JList(s) == [t |-> "list", v |-> s]
JObj(f) == [t |-> "obj", v |-> f]
JNum(n) == [t |-> "num", v |-> n]
JNull == [t |-> "null", v |-> <<>>]
JInvalid == [t |-> "invalid", v |-> <<>>]

\* the return code of the proxy command is not looked at
ProxyFailedNever(run) == FALSE

\* line 114: the proxy command exited non-zero
ProxyFailed(run) == run.rc # 0

\* line 118: isinstance(data, list) and data
NonEmptyList(data) == data.t = "list" /\ data.v # <<>>

\* line 119: data[0].get("results", []) raises unless data[0] is an object
QueryRaises(data) == NonEmptyList(data) /\ data.v[1].t # "obj"

\* line 118-120: what query_d1 returns
QueryResult(data) ==
    IF NonEmptyList(data)
    THEN IF "results" \in DOMAIN data.v[1].v
         THEN data.v[1].v["results"]
         ELSE JList(<<>>)
    ELSE JList(<<>>)

\* main line 157: the comprehension needs an iterable of row objects
RowsUsable(rows) ==
    \/ rows.t = "list" /\ \A i \in 1..Len(rows.v) : rows.v[i].t = "obj"
    \/ rows.t = "obj" /\ DOMAIN rows.v = {}

RowList(rows) ==
    IF rows.t = "list" THEN [i \in 1..Len(rows.v) |-> rows.v[i].v] ELSE <<>>

\* main line 156-157 with query_d1 line 107-120
QueryD1 ==
    /\ pc = "query"
    /\ proxyCalls' = proxyCalls + 1
    /\ IF ProxyFailed(proxy)
       THEN /\ stderr' = Append(stderr, "wrangler error")
            /\ status' = 1
            /\ pc' = "exit"
            /\ UNCHANGED db_users
       ELSE IF \/ proxy.out.t = "invalid"
               \/ QueryRaises(proxy.out)
               \/ ~RowsUsable(QueryResult(proxy.out))
       THEN /\ stderr' = Append(stderr, "traceback")
            /\ status' = 1
            /\ pc' = "exit"
            /\ UNCHANGED db_users
       ELSE /\ db_users' = RowList(QueryResult(proxy.out))
            /\ pc' = "report"
            /\ UNCHANGED <<status, stderr>>
    /\ UNCHANGED <<envFile, lineNo, env, env0, apiPages, page, users, requests,
                   proxy, stdout>>

(***************************************************************************)
(* main: the report                                                        *)
(***************************************************************************)
\* ord() of the characters user IDs are built from
CodePoint(c) ==
    CASE c = "B" -> 66
      [] c = "a" -> 97
      [] c = "b" -> 98

\* s < t on Python str: the first differing character decides by code point,
\* and a proper prefix is less
RECURSIVE StrLess(_, _)
StrLess(s, t) ==
    IF t = <<>> THEN FALSE
    ELSE IF s = <<>> THEN TRUE
    ELSE IF Head(s) = Head(t) THEN StrLess(Tail(s), Tail(t))
    ELSE CodePoint(Head(s)) < CodePoint(Head(t))

\* sorted(ids, reverse=True)
RECURSIVE SortedDescending(_)
SortedDescending(ids) ==
    IF ids = {} THEN <<>>
    ELSE LET most == CHOOSE x \in ids : \A y \in ids \ {x} : StrLess(y, x)
         IN  <<most>> \o SortedDescending(ids \ {most})

\* sorted(ids) for a set of str
RECURSIVE Sorted(_)
Sorted(ids) ==
    IF ids = {} THEN <<>>
    ELSE LET least == CHOOSE x \in ids : \A y \in ids \ {x} : StrLess(x, y)
         IN  <<least>> \o Sorted(ids \ {least})

\* line 153, 170: clerk_by_id.get(uid): <<>> for None, else <<the user>>; of
\* several users with one id the dict keeps the last
ClerkGet(clerk_users, uid) ==
    LET hits == {i \in 1..Len(clerk_users) : clerk_users[i].id = uid}
    IN  IF hits = {} THEN <<>>
        ELSE <<clerk_users[CHOOSE i \in hits : \A j \in hits : j <= i]>>

\* line 171, 198: next((r for r in db_users if ...), None): the first match
DbGet(db, uid) ==
    LET hits == {i \in 1..Len(db) : db[i].clerk_user_id = uid}
    IN  IF hits = {} THEN <<>>
        ELSE <<db[CHOOSE i \in hits : \A j \in hits : i <= j]>>

\* line 157
DbIds(db) == {db[i].clerk_user_id : i \in 1..Len(db)}

\* line 153: the keys of clerk_by_id
ClerkIds(clerk_users) == {clerk_users[i].id : i \in 1..Len(clerk_users)}

\* the ids of the identity users alone
AllIdsClerkOnly(clerk_users, db) == Sorted(ClerkIds(clerk_users))

\* line 159
AllIds(clerk_users, db) == Sorted(ClerkIds(clerk_users) \cup DbIds(db))

\* the first test with "or" for "and"
StatusOfEitherSide(clerk, db_row) ==
    IF clerk # <<>> \/ db_row # <<>> THEN "ok"
    ELSE IF clerk # <<>> /\ ~(db_row # <<>>) THEN "NO DB DATA"
    ELSE "** ORPHANED DB DATA **"

\* line 179-186
StatusOf(clerk, db_row) ==
    IF clerk # <<>> /\ db_row # <<>> THEN "ok"
    ELSE IF clerk # <<>> /\ ~(db_row # <<>>) THEN "NO DB DATA"
    ELSE "** ORPHANED DB DATA **"

\* the items column shows category_count and the cats column master_item_count
ReportRowMixedCounts(clerk_users, db, uid) ==
    LET clerk == ClerkGet(clerk_users, uid)
        db_row == DbGet(db, uid)
    IN  [kind |-> "row",
         uid |-> uid,
         email |-> IF clerk # <<>> THEN clerk[1].email ELSE "",
         trips |-> IF db_row # <<>> THEN db_row[1].trip_count ELSE 0,
         items |-> IF db_row # <<>> THEN db_row[1].category_count ELSE 0,
         cats |-> IF db_row # <<>> THEN db_row[1].master_item_count ELSE 0,
         tmpls |-> IF db_row # <<>> THEN db_row[1].bag_template_count ELSE 0,
         status |-> StatusOf(clerk, db_row)]

\* line 170-188: the table line of one id
ReportRow(clerk_users, db, uid) ==
    LET clerk == ClerkGet(clerk_users, uid)
        db_row == DbGet(db, uid)
    IN  [kind |-> "row",
         uid |-> uid,
         email |-> IF clerk # <<>> THEN clerk[1].email ELSE "",
         trips |-> IF db_row # <<>> THEN db_row[1].trip_count ELSE 0,
         items |-> IF db_row # <<>> THEN db_row[1].master_item_count ELSE 0,
         cats |-> IF db_row # <<>> THEN db_row[1].category_count ELSE 0,
         tmpls |-> IF db_row # <<>> THEN db_row[1].bag_template_count ELSE 0,
         status |-> StatusOf(clerk, db_row)]

\* line 169-188: the table, one line per id of all_ids in that order
ReportRows(clerk_users, db) ==
    LET all_ids == AllIds(clerk_users, db)
    IN  [i \in 1..Len(all_ids) |-> ReportRow(clerk_users, db, all_ids[i])]

RowHasStatus(r, st) == r.status = st

\* line 166-167, 183, 186: the ids appended while the table is printed
IdsWithStatus(rows, st) ==
    LET sel == SelectSeq(rows, LAMBDA r : RowHasStatus(r, st))
    IN  [i \in 1..Len(sel) |-> sel[i].uid]

\* line 192: the number printed after "Clerk users:"
ClerkCount(clerk_users) == Len(clerk_users)

\* line 193: the number printed after "DB users:"
DbCount(db) == Len(db)

\* line 195-201
OrphanSection(db, orphaned_db) ==
    IF orphaned_db # <<>>
    THEN <<[kind |-> "orphan_head", n |-> Len(orphaned_db)]>>
         \o [i \in 1..Len(orphaned_db) |->
                [kind |-> "orphan",
                 uid |-> orphaned_db[i],
                 trips |-> DbGet(db, orphaned_db[i])[1].trip_count,
                 items |-> DbGet(db, orphaned_db[i])[1].master_item_count]]
    ELSE <<[kind |-> "no_orphans"]>>

\* the section with a "none found" line of its own, like the orphan section
UnusedSectionWithNone(clerk_users, unused_clerk) ==
    IF unused_clerk # <<>>
    THEN <<[kind |-> "unused_head", n |-> Len(unused_clerk)]>>
         \o [i \in 1..Len(unused_clerk) |->
                [kind |-> "unused",
                 uid |-> unused_clerk[i],
                 email |-> ClerkGet(clerk_users, unused_clerk[i])[1].email]]
    ELSE <<[kind |-> "no_unused"]>>

\* line 203-206
UnusedSection(clerk_users, unused_clerk) ==
    IF unused_clerk # <<>>
    THEN <<[kind |-> "unused_head", n |-> Len(unused_clerk)]>>
         \o [i \in 1..Len(unused_clerk) |->
                [kind |-> "unused",
                 uid |-> unused_clerk[i],
                 email |-> ClerkGet(clerk_users, unused_clerk[i])[1].email]]
    ELSE <<>>

\* line 162-206: everything main prints from the header on
ReportLines(clerk_users, db) ==
    LET rows == ReportRows(clerk_users, db)
    IN  <<[kind |-> "blank"], [kind |-> "header"], [kind |-> "rule"]>>
        \o rows
        \o <<[kind |-> "blank"],
             [kind |-> "clerk_count", n |-> ClerkCount(clerk_users)],
             [kind |-> "db_count", n |-> DbCount(db)]>>
        \o OrphanSection(db, IdsWithStatus(rows, "** ORPHANED DB DATA **"))
        \o UnusedSection(clerk_users, IdsWithStatus(rows, "NO DB DATA"))

\* main line 159-206, then the normal end of the process
Report ==
    /\ pc = "report"
    /\ stdout' = stdout \o ReportLines(users, db_users)
    /\ status' = 0
    /\ pc' = "done"
    /\ UNCHANGED <<envFile, lineNo, env, env0, apiPages, page, users, requests,
                   proxy, proxyCalls, db_users, stderr>>

(***************************************************************************)
(* The inputs of a run: the environment file, the process environment, the *)
(* identity API and the proxy command.                                     *)
(***************************************************************************)
SeqsUpTo(S, n) == UNION {[1..k -> S] : k \in 0..n}

EmptyEnv == <<>>
PresetEnv == (ClerkKey :> <<"sk_preset">>) @@ (<<"HOME">> :> <<"/root">>)

EnvLines ==
    { <<>>,
      <<" ", " ">>,
      <<"#", "CLERK_SECRET_KEY", "=", "sk_old">>,
      <<" ", "#", " ", "note">>,
      <<"CLERK_SECRET_KEY", "=", "sk_live">>,
      <<" ", "CLERK_SECRET_KEY", " ", "=", " ", "sk_test", " ">>,
      <<"CLERK_SECRET_KEY", "=", "\"", "sk_live", "\"">>,
      <<"CLERK_SECRET_KEY", "=", "\"", "sk_live", "'">>,
      <<"CLERK_SECRET_KEY", "=", "'", "'">>,
      <<"CLERK_SECRET_KEY", "=">>,
      <<"CLERK_SECRET_KEY">>,
      <<"=", "sk_live">>,
      <<"WRANGLER_BIN", "=", "a", "=", "b">>,
      <<"WRANGLER_BIN", " ", "=", "'", " ", "w", " ", "'">>,
      <<"WRANGLER_BIN", "=", "'", "it", "'", "s", "'">>,
      <<"DB_NAME", "=", "db", " ", "#", "prod">> }

GoodEnvFile == EnvFileOf(<< <<"CLERK_SECRET_KEY", "=", "'", "sk_live", "'">> >>)

\* users as the identity API returns them
RawUsers ==
    { [id |-> <<"a">>, email_addresses |-> <<"x@e">>, created_at |-> 1500],
      [id |-> <<"a">>, email_addresses |-> <<"y@e", "x@e">>, created_at |-> 2999],
      [id |-> <<"a", "b">>, email_addresses |-> <<>>, created_at |-> 0],
      [id |-> <<"B">>, email_addresses |-> <<"z@e">>, created_at |-> 61000] }

\* rows as the aggregate query of fetch_db_users returns them
DbRows ==
    { [clerk_user_id |-> <<"a">>, trip_count |-> 1, master_item_count |-> 2,
       category_count |-> 3, bag_template_count |-> 4],
      [clerk_user_id |-> <<"a">>, trip_count |-> 5, master_item_count |-> 6,
       category_count |-> 7, bag_template_count |-> 8],
      [clerk_user_id |-> <<"a", "b">>, trip_count |-> 0, master_item_count |-> 11,
       category_count |-> 0, bag_template_count |-> 12],
      [clerk_user_id |-> <<"b">>, trip_count |-> 9, master_item_count |-> 0,
       category_count |-> 10, bag_template_count |-> 0] }

OkResponse(shape, items) == [ok |-> TRUE, shape |-> shape, items |-> items]
FailedRequest == [ok |-> FALSE, shape |-> "list", items |-> <<>>]

RowsJson(rows) == JList([i \in 1..Len(rows) |-> JObj(rows[i])])
\* the shape wrangler d1 execute --json prints: [ { "results": [ row, ... ] } ]
ProxyJson(rows) == JList(<<JObj([results |-> RowsJson(rows), success |-> JNull])>>)
ProxyRun(rc, out) == [rc |-> rc, out |-> out]

DefaultApi == <<OkResponse("list", <<>>)>>
DefaultProxy == ProxyRun(0, ProxyJson(<<>>))

SomeRows == <<CHOOSE r \in DbRows : r.clerk_user_id = <<"b">> >>

\* outputs of the proxy command other than the expected shape
OddOutputs ==
    { JInvalid, JNull, JNum(1), JObj(<<>>),
      JObj([results |-> RowsJson(SomeRows)]),
      JList(<<>>),
      JList(<<JNum(1)>>),
      JList(<<JNull>>),
      JList(<<JList(<<>>)>>),
      JList(<<JObj(<<>>)>>),
      JList(<<JObj([success |-> JNull])>>),
      JList(<<JObj([results |-> JNull])>>),
      JList(<<JObj([results |-> JObj(<<>>)])>>),
      JList(<<JObj([results |-> RowsJson(SomeRows)]), JNum(1)>>) }

Scenario(file, e, api, px) == [file |-> file, env |-> e, api |-> api, proxy |-> px]

EnvScenarios ==
    { Scenario(f, e, DefaultApi, DefaultProxy) :
        f \in {NoFile} \cup {EnvFileOf(ls) : ls \in SeqsUpTo(EnvLines, 1)}, e \in {EmptyEnv, PresetEnv} }

ApiScenarios ==
    { Scenario(GoodEnvFile, EmptyEnv, <<r>>, DefaultProxy) :
        r \in {FailedRequest}
              \cup {OkResponse(sh, <<u>>) : sh \in {"data", "nodata"}, u \in RawUsers} }

ProxyScenarios ==
    { Scenario(GoodEnvFile, EmptyEnv, DefaultApi, ProxyRun(rc, out)) :
        rc \in {0, 1}, out \in OddOutputs \cup {ProxyJson(SomeRows)} }

DataScenarios ==
    { Scenario(GoodEnvFile, EmptyEnv, <<OkResponse("list", us)>>,
               ProxyRun(0, ProxyJson(rows))) :
        us \in SeqsUpTo(RawUsers, MaxUsers), rows \in SeqsUpTo(DbRows, MaxDbRows) }

Start(sc, at) ==
    /\ pc = at
    /\ status = -1
    /\ envFile = sc.file
    /\ lineNo = 0
    /\ env = sc.env
    /\ env0 = sc.env
    /\ apiPages = sc.api
    /\ page = 0
    /\ users = <<>>
    /\ requests = 0
    /\ proxy = sc.proxy
    /\ proxyCalls = 0
    /\ db_users = <<>>
    /\ stdout = <<>>
    /\ stderr = <<>>

(***************************************************************************)
(* The whole run: main()                                                   *)
(***************************************************************************)
Init ==
    \E sc \in EnvScenarios \cup ApiScenarios \cup ProxyScenarios \cup DataScenarios :
        Start(sc, "load_env")

Next ==
    \/ LoadEnvMissing
    \/ LoadEnvLine
    \/ LoadEnvReturn
    \/ FetchStart
    \/ FetchPage
    \/ QueryD1
    \/ Report

Spec == Init /\ [][Next]_vars

(***************************************************************************)
(* load_env alone, on every file of up to MaxEnvLines of the lines above   *)
(***************************************************************************)
InitEnv ==
    \E f \in {NoFile} \cup {EnvFileOf(ls) : ls \in SeqsUpTo(EnvLines, MaxEnvLines)}, e \in {EmptyEnv, PresetEnv} :
        Start(Scenario(f, e, DefaultApi, DefaultProxy), "load_env")

NextEnv ==
    \/ LoadEnvMissing
    \/ LoadEnvLine
    \/ LoadEnvReturn

SpecEnv == InitEnv /\ [][NextEnv]_vars

(***************************************************************************)
(* fetch_clerk_users alone, against an identity API that answers the       *)
(* request for page p with a scripted response                             *)
(***************************************************************************)
Digit == <<"0", "1", "2", "3", "4", "5", "6", "7", "8", "9">>

RECURSIVE Decimal(_)
Decimal(n) == IF n < 10 THEN <<Digit[n + 1]>> ELSE Decimal(n \div 10) \o <<Digit[(n % 10) + 1]>>

\* the i-th user of page p
PageUser(p, i) ==
    [id |-> <<"u">> \o Decimal(p) \o <<"_">> \o Decimal(i),
     email_addresses |-> IF i % 2 = 0 THEN <<>> ELSE <<"x@e">>,
     created_at |-> 1000 * i + p]

PageOf(p, n) == [i \in 1..n |-> PageUser(p, i)]

ResponseKinds ==
    { <<"list", 0>>, <<"list", 37>>, <<"list", page_size - 1>>, <<"list", page_size>>,
      <<"data", page_size>>, <<"nodata", 0>>, <<"error", 0>> }

ResponseOf(kind, p) ==
    IF kind[1] = "error" THEN FailedRequest
    ELSE OkResponse(kind[1], PageOf(p, kind[2]))

ApiScripts ==
    { [p \in 1..MaxPages |-> ResponseOf(ks[p], p)] : ks \in [1..MaxPages -> ResponseKinds] }

InitFetch ==
    \E api \in ApiScripts, e \in {EmptyEnv, PresetEnv} :
        Start(Scenario(EnvFileOf(<<>>), e, api, DefaultProxy), "fetch_start")

NextFetch ==
    \/ FetchStart
    \/ FetchPage

SpecFetch == InitFetch /\ [][NextFetch]_vars /\ WF_vars(NextFetch)

(***************************************************************************)
(* What the properties below speak of.                                     *)
(***************************************************************************)
LinesOfKind(k) == SelectSeq(stdout, LAMBDA l : l.kind = k)
TableRows == LinesOfKind("row")
\* I: the IDs of the identity users; D: the clerk_user_id values of the summaries
IdsI == {users[i].id : i \in 1..Len(users)}
IdsD == {db_users[i].clerk_user_id : i \in 1..Len(db_users)}
PrintedIds == {TableRows[i].uid : i \in 1..Len(TableRows)}
ReportLineKinds ==
    {"row", "clerk_count", "db_count", "orphan_head", "orphan", "no_orphans",
     "unused_head", "unused"}
Statuses == {"ok", "NO DB DATA", "** ORPHANED DB DATA **"}
RowsWithStatus(S) == {i \in 1..Len(TableRows) : TableRows[i].status \in S}

\* s comes before t in lexicographic order: they agree on the first k
\* characters, and then s ends or has the smaller character
LexBefore(s, t) ==
    \E k \in 0..Len(s) :
        /\ k <= Len(t)
        /\ \A m \in 1..k : s[m] = t[m]
        /\ \/ k = Len(s) /\ k < Len(t)
           \/ k < Len(s) /\ k < Len(t) /\ CodePoint(s[k + 1]) < CodePoint(t[k + 1])

Permute(seq, perm) == [i \in 1..Len(seq) |-> seq[perm[i]]]
UidsOf(rows) == [i \in 1..Len(rows) |-> rows[i].uid]

(***************************************************************************)
(* C1. Union completeness: the table of a finished report has exactly one  *)
(* row per ID of I \cup D: none omitted, none printed twice, none foreign.  *)
(***************************************************************************)
C1_UnionCompleteness ==
    pc = "done" =>
        /\ PrintedIds = IdsI \cup IdsD
        /\ Len(TableRows) = Cardinality(IdsI \cup IdsD)
        /\ \A i, j \in 1..Len(TableRows) : TableRows[i].uid = TableRows[j].uid => i = j

C1_Witness ==
    /\ pc = "done"
    /\ Len(users) = 2 /\ users[1].id = users[2].id
    /\ IdsI \cap IdsD # {}
    /\ IdsD \ IdsI # {}
    /\ Len(TableRows) = 2

(***************************************************************************)
(* C2. Classification: every row has exactly one of the three statuses:    *)
(* ok iff its ID is in I and D, NO DB DATA iff in I only, ORPHANED DB DATA  *)
(* iff in D only.                                                          *)
(***************************************************************************)
C2_Classification ==
    pc = "done" =>
        \A i \in 1..Len(TableRows) :
            LET r == TableRows[i]
            IN  /\ r.status \in Statuses
                /\ r.status = "ok" <=> r.uid \in IdsI \cap IdsD
                /\ r.status = "NO DB DATA" <=> r.uid \in IdsI \ IdsD
                /\ r.status = "** ORPHANED DB DATA **" <=> r.uid \in IdsD \ IdsI

C2_Witness ==
    /\ pc = "done"
    /\ \A st \in Statuses : RowsWithStatus({st}) # {}

(***************************************************************************)
(* C4. Count fidelity: a row whose ID has a database summary shows the     *)
(* four counts of a summary of that ID; an identity-only row shows 0 four   *)
(* times.                                                                  *)
(***************************************************************************)
C4_CountFidelity ==
    pc = "done" =>
        \A i \in 1..Len(TableRows) :
            LET r == TableRows[i]
            IN  IF r.uid \in IdsD
                THEN \E j \in 1..Len(db_users) :
                        /\ db_users[j].clerk_user_id = r.uid
                        /\ r.trips = db_users[j].trip_count
                        /\ r.items = db_users[j].master_item_count
                        /\ r.cats = db_users[j].category_count
                        /\ r.tmpls = db_users[j].bag_template_count
                ELSE r.trips = 0 /\ r.items = 0 /\ r.cats = 0 /\ r.tmpls = 0

C4_Witness ==
    /\ pc = "done"
    /\ \E i, j \in 1..Len(TableRows) :
        /\ TableRows[i].uid \in IdsD \ IdsI
        /\ TableRows[i].trips = 9 /\ TableRows[i].cats = 10
        /\ TableRows[j].uid \in IdsI \ IdsD

(***************************************************************************)
(* C5. Ordering: the rows are in strictly ascending lexicographic order of *)
(* ID, and every permutation of the identity users and of the summaries     *)
(* gives the rows in that same order.                                      *)
(***************************************************************************)
C5_Ordering ==
    pc = "done" =>
        /\ \A i \in 1..(Len(TableRows) - 1) :
              LexBefore(TableRows[i].uid, TableRows[i + 1].uid)
        /\ \A pu \in Permutations(1..Len(users)), pd \in Permutations(1..Len(db_users)) :
              UidsOf(ReportRows(Permute(users, pu), Permute(db_users, pd)))
                  = UidsOf(TableRows)

C5_Witness ==
    /\ pc = "done"
    /\ Len(TableRows) = 4
    /\ Len(users) = 2 /\ LexBefore(users[2].id, users[1].id)
    /\ Len(db_users) = 2 /\ LexBefore(db_users[2].clerk_user_id, db_users[1].clerk_user_id)

(***************************************************************************)
(* C8. The summary after the table: the IDs of D \ I under one "Orphaned   *)
(* DB users" heading that prints their number, each with trip and item      *)
(* counts of its summary, or one "No orphaned DB data found" line when      *)
(* there are none; then the IDs of I \ D under one "Clerk users with no DB  *)
(* data" heading that prints their number, each with its email, and         *)
(* nothing for this section when there are none.                           *)
(***************************************************************************)
SummaryRank(k) ==
    CASE k = "row" -> 1
      [] k = "clerk_count" -> 2
      [] k = "db_count" -> 3
      [] k \in {"orphan_head", "no_orphans"} -> 4
      [] k = "orphan" -> 5
      [] k = "unused_head" -> 6
      [] k = "unused" -> 7
      [] OTHER -> 0

C8_Summary ==
    pc = "done" =>
        LET orphans == LinesOfKind("orphan")
            unused == LinesOfKind("unused")
        IN  /\ IF IdsD \ IdsI # {}
               THEN /\ Len(LinesOfKind("orphan_head")) = 1
                    /\ LinesOfKind("orphan_head")[1].n = Cardinality(IdsD \ IdsI)
                    /\ Len(LinesOfKind("no_orphans")) = 0
               ELSE /\ Len(LinesOfKind("orphan_head")) = 0
                    /\ Len(LinesOfKind("no_orphans")) = 1
            /\ {orphans[i].uid : i \in 1..Len(orphans)} = IdsD \ IdsI
            /\ Len(orphans) = Cardinality(IdsD \ IdsI)
            /\ \A i \in 1..Len(orphans) :
                  \E j \in 1..Len(db_users) :
                      /\ db_users[j].clerk_user_id = orphans[i].uid
                      /\ db_users[j].trip_count = orphans[i].trips
                      /\ db_users[j].master_item_count = orphans[i].items
            /\ IF IdsI \ IdsD # {}
               THEN /\ Len(LinesOfKind("unused_head")) = 1
                    /\ LinesOfKind("unused_head")[1].n = Cardinality(IdsI \ IdsD)
               ELSE Len(LinesOfKind("unused_head")) = 0
            /\ {unused[i].uid : i \in 1..Len(unused)} = IdsI \ IdsD
            /\ Len(unused) = Cardinality(IdsI \ IdsD)
            /\ \A i \in 1..Len(unused) :
                  \E j \in 1..Len(users) :
                      users[j].id = unused[i].uid /\ users[j].email = unused[i].email
            /\ \A i, j \in 1..Len(stdout) :
                  (i < j /\ SummaryRank(stdout[i].kind) > 0 /\ SummaryRank(stdout[j].kind) > 0)
                      => SummaryRank(stdout[i].kind) <= SummaryRank(stdout[j].kind)
            /\ IdsI \ IdsD = {} => stdout[Len(stdout)].kind \in {"orphan", "no_orphans"}

C8_Witness ==
    /\ pc = "done"
    /\ Cardinality(IdsD \ IdsI) = 2
    /\ Cardinality(IdsI \ IdsD) = 2

(***************************************************************************)
(* C10. The summary numbers agree with the table: "Clerk users" is the     *)
(* number of rows with status ok or NO DB DATA, "DB users" the number of    *)
(* rows with status ok or ORPHANED DB DATA.                                *)
(***************************************************************************)
C10_CountsAgreeWithTable ==
    pc = "done" =>
        /\ LinesOfKind("clerk_count")[1].n = Cardinality(RowsWithStatus({"ok", "NO DB DATA"}))
        /\ LinesOfKind("db_count")[1].n
              = Cardinality(RowsWithStatus({"ok", "** ORPHANED DB DATA **"}))

(***************************************************************************)
(* C6. Fail-stop: with the environment file missing, or CLERK_SECRET_KEY    *)
(* unset or empty once the file is loaded, the run ends with status 1 and   *)
(* issues no identity request and no proxy command; after a failed identity *)
(* request the proxy command is never invoked; a proxy command that exits   *)
(* non-zero ends the run with status 1; a run that ends with status 1 has   *)
(* printed no report row and no summary line, stays ended, and no request   *)
(* or command was issued a second time.                                    *)
(***************************************************************************)
KeyUnsetOrEmpty == ClerkKey \notin DOMAIN env \/ env[ClerkKey] = <<>>
RequestFailed == \E p \in 1..requests : ~apiPages[p].ok
Ended == pc = "exit" /\ ~ENABLED Next

ExpectedShape(out) ==
    /\ out.t = "list"
    /\ Len(out.v) > 0
    /\ out.v[1].t = "obj"
    /\ "results" \in DOMAIN out.v[1].v

IsRowList(j) == j.t = "list" /\ \A i \in 1..Len(j.v) : j.v[i].t = "obj"

C7_ShapeDefault ==
    (proxyCalls = 1 /\ proxy.rc = 0 /\ proxy.out.t # "invalid") =>
        IF ExpectedShape(proxy.out)
        THEN IsRowList(proxy.out.v[1].v["results"]) =>
                /\ status # 1
                /\ db_users = [i \in 1..Len(proxy.out.v[1].v["results"].v) |->
                                  proxy.out.v[1].v["results"].v[i].v]
        ELSE status # 1 /\ db_users = <<>>

(***************************************************************************)
(* C9. After load_env has processed an existing file, every key that a      *)
(* line other than a blank or comment line names holds the trimmed,         *)
(* quote-stripped value of the last such line naming it, whatever earlier   *)
(* lines or the starting environment gave it; blank and comment lines set   *)
(* nothing; every other variable is as it was when the process started.     *)
(***************************************************************************)
\* s without the characters of chars at its two ends
Trimmed(s, chars) ==
    LET keep == {i \in 1..Len(s) : s[i] \notin chars}
    IN  IF keep = {} THEN <<>>
        ELSE SubSeq(s, CHOOSE i \in keep : \A j \in keep : i <= j,
                       CHOOSE i \in keep : \A j \in keep : j <= i)

BlankOrComment(raw) ==
    LET t == Trimmed(raw, {" "}) IN t = <<>> \/ t[1] = "#"

\* the text before the first '=' of the line (all of it when there is none)
KeyText(raw) ==
    LET t == Trimmed(raw, {" "})
        eqs == {i \in 1..Len(t) : t[i] = "="}
    IN  IF eqs = {} THEN t
        ELSE SubSeq(t, 1, (CHOOSE i \in eqs : \A j \in eqs : i <= j) - 1)

\* the text after the first '=' of the line
ValueText(raw) ==
    LET t == Trimmed(raw, {" "})
        eqs == {i \in 1..Len(t) : t[i] = "="}
    IN  IF eqs = {} THEN <<>>
        ELSE SubSeq(t, (CHOOSE i \in eqs : \A j \in eqs : i <= j) + 1, Len(t))

KeyNamed(raw) == Trimmed(KeyText(raw), {" "})
ValueGiven(raw) == Trimmed(Trimmed(ValueText(raw), {" "}), {"'", "\""})

SettingLines == {i \in 1..Len(envFile.lines) : ~BlankOrComment(envFile.lines[i])}
KeysInFile == {KeyNamed(envFile.lines[i]) : i \in SettingLines}
LastLineFor(k) ==
    CHOOSE i \in SettingLines :
        /\ KeyNamed(envFile.lines[i]) = k
        /\ \A j \in SettingLines : KeyNamed(envFile.lines[j]) = k => j <= i

C9_LoadEnv ==
    pc = "fetch_start" =>
        /\ DOMAIN env = DOMAIN env0 \cup KeysInFile
        /\ \A k \in KeysInFile : env[k] = ValueGiven(envFile.lines[LastLineFor(k)])
        /\ \A k \in DOMAIN env0 \ KeysInFile : env[k] = env0[k]

C9_Witness ==
    /\ pc = "fetch_start"
    /\ env0 = PresetEnv
    /\ Len(envFile.lines) = 2
    /\ SettingLines = {1, 2}
    /\ KeyNamed(envFile.lines[1]) = ClerkKey
    /\ KeyNamed(envFile.lines[2]) = ClerkKey
    /\ Len(envFile.lines[2]) >= 3
    /\ envFile.lines[2][3] = "\""
    /\ env[ClerkKey] = <<"sk_live">>
    /\ ValueGiven(envFile.lines[1]) # <<"sk_live">>

(***************************************************************************)
(* C3. Pagination: pages 1, 2, 3, ... are requested one at a time, and the  *)
(* loop stops after the first page with fewer than page_size items: if that *)
(* is page k, exactly k requests are made and the users collected are the   *)
(* items of pages 1..k in order (sizes 100, 100, 37 give 3 requests and 237 *)
(* users; 100, 0 give 2 requests and 100 users).  The loop ends whenever    *)
(* the API has such a page to return.                                      *)
(***************************************************************************)
PageItems(p) == IF apiPages[p].shape = "nodata" THEN <<>> ELSE apiPages[p].items
ShortPage(p) == apiPages[p].ok /\ Len(PageItems(p)) < page_size
FullPage(p) == apiPages[p].ok /\ Len(PageItems(p)) >= page_size

RECURSIVE ItemIdsUpTo(_)
ItemIdsUpTo(p) ==
    IF p = 0 THEN <<>>
    ELSE ItemIdsUpTo(p - 1) \o [i \in 1..Len(PageItems(p)) |-> PageItems(p)[i].id]

PageSizesAre(sizes) ==
    /\ Len(apiPages) >= Len(sizes)
    /\ \A p \in 1..Len(sizes) : apiPages[p].ok /\ Len(PageItems(p)) = sizes[p]

FetchReturned == pc = "query"

C3_Safe ==
    /\ \A p \in 1..(requests - 1) : FullPage(p)
    /\ pc = "fetch" => page = requests + 1
    /\ FetchReturned =>
          /\ requests >= 1
          /\ ShortPage(requests)
          /\ [i \in 1..Len(users) |-> users[i].id] = ItemIdsUpTo(requests)
          /\ PageSizesAre(<<100, 100, 37>>) => requests = 3 /\ Len(users) = 237
          /\ PageSizesAre(<<100, 0>>) => requests = 2 /\ Len(users) = 100

C3_Pagination ==
    /\ []C3_Safe
    /\ []((\E k \in 1..Len(apiPages) : ShortPage(k)) => <>(pc \in {"query", "exit"}))

C3_Witness ==
    /\ FetchReturned
    /\ PageSizesAre(<<100, 100, 37>>)
    /\ requests = 3
    /\ Len(users) = 237

====
